---------------------------- MODULE Spec2Model ----------------------------
(***************************************************************************)
(* hoval-gateway: the protocol layer of a CAN <-> MQTT bridge.             *)
(*                                                                         *)
(*   src/gateway/message.py  arbitration-id codec, message envelope,       *)
(*                           ReceiveMessage.parse, SendMessage             *)
(*   src/gateway/core.py     ResponseParser.parse (reassembler),           *)
(*                           PeriodicRequest, OneTimeRequest               *)
(*                                                                         *)
(* core.py drives an envelope object through put / parse_data / send and   *)
(* reads gateway.settings and gateway.datapoint.  Those pieces are not     *)
(* among the source files; they are modelled from the specification        *)
(* (sections 3, 4.3 step 7, 4.4, 6) on top of the ReceiveMessage and       *)
(* SendMessage code of message.py, and are marked as such below.           *)
(***************************************************************************)
EXTENDS Integers, Sequences, FiniteSets, TLC

VARIABLES
    devices,    \* ResponseParser._devices : device_id -> Device
    pending,    \* ResponseParser._pending_msg : key -> stored entry
    frame,      \* the CAN frame handed to the last ResponseParser.parse call
    ret,        \* how that call ended: no result, a result, or a raised error
    inner,      \* how the envelope's own parse ended inside that call
    seen,       \* history: identities met in accepted frames
    run,        \* history: progress of the multi-frame sequence being fed
    sessions,   \* history: first payload bytes of the multi-frame first frames met
    bus,        \* frames handed to bus.send, oldest first
    request,    \* the last OneTimeRequest: its arguments and the message built
    outcome,    \* how the last OneTimeRequest.start ended
    arb,        \* the last build_arbitration_id call: arguments and identifier
    periodic,   \* frames handed to bus.send_periodic, and the device last polled
    task,       \* which task took the last step
    main        \* the main program: where it is, its settings and what it holds

vars == <<devices, pending, frame, ret, inner, seen, run, sessions, bus, request, outcome,
          arb, periodic, task, main>>

(***************************************************************************)
(* Bit arithmetic of Python ints (unbounded, non-negative here).           *)
(***************************************************************************)
\* a & mask, for a mask 2^k - 1 of low bits (0xff, 0xfff): the low k bits of a
BitAnd(a, mask) == a % (mask + 1)

RECURSIVE BitOr(_, _)
BitOr(a, b) ==
    IF a = 0 THEN b
    ELSE IF b = 0 THEN a
    ELSE (IF a % 2 = 1 \/ b % 2 = 1 THEN 1 ELSE 0) + 2 * BitOr(a \div 2, b \div 2)

ShiftLeft(a, n) == a * (2 ^ n)

ShiftRight(a, n) == a \div (2 ^ n)

(***************************************************************************)
(* Operation codes.                                                        *)
(***************************************************************************)
RESPONSE == 66

GET_REQUEST == 64

SET_REQUEST == 70

OperationList == {RESPONSE, GET_REQUEST, SET_REQUEST}

\* settings.OPERATIONS.values() as core.py reads it: the same three codes.
OPERATIONS == OperationList

(***************************************************************************)
(* Arbitration-id codec.                                                   *)
(***************************************************************************)
build_arbitration_id(message_id, priority, device_type, device_id) ==
    BitOr(BitOr(BitOr(ShiftLeft(message_id, 24), ShiftLeft(priority, 16)),
                ShiftLeft(device_type, 8)), device_id)

get_message_id(arbitration_id) == ShiftRight(arbitration_id, 24)

get_message_priority(arbitration_id) == BitAnd(ShiftRight(arbitration_id, 16), 255)

\* The mask in the source is 0xfff (twelve bits), not 0xff.
get_message_device_type(arbitration_id) == BitAnd(ShiftRight(arbitration_id, 8), 4095)

get_message_device_id(arbitration_id) == BitAnd(arbitration_id, 255)

\* Message.__init__: the envelope's header fields, its data buffer empty.
MessageInit(arbitration_id, operation_id) ==
    [arbitration_id |-> arbitration_id,
     message_id     |-> ShiftRight(arbitration_id, 24),
     priority       |-> BitAnd(ShiftRight(arbitration_id, 16), 255),
     device_type    |-> BitAnd(ShiftRight(arbitration_id, 8), 255),
     device_id      |-> BitAnd(arbitration_id, 255),
     operation_id   |-> operation_id,
     data           |-> << >>]

_is_valid(message) == message.operation_id \in OperationList


(***************************************************************************)
(* Collaborators that are not among the source files, modelled from the    *)
(* specification: the datapoint registry (section 3 "Datapoint", section 6 *)
(* lookup_by_id / lookup_by_name / all) and the datatype codec (section    *)
(* 4.2, plain big-endian unsigned integer, factor 1).                      *)
(***************************************************************************)
NoLimits == [declared |-> FALSE, lower |-> 0, upper |-> 0]

\* DatapointList(settings.DATAPOINT_LIST).datapoint_list, in registry order
datapoint_list ==
    << [function_group |-> 3, function_number |-> 4, datapoint_id |-> 5,
        name |-> "room_temp", periodic |-> TRUE,
        limits |-> [declared |-> TRUE, lower |-> 10, upper |-> 50]],
       [function_group |-> 3, function_number |-> 4, datapoint_id |-> 6,
        name |-> "fan_mode", periodic |-> FALSE,
        limits |-> NoLimits],
       [function_group |-> 3, function_number |-> 4, datapoint_id |-> 8,
        name |-> "boiler_temp", periodic |-> TRUE,
        limits |-> NoLimits] >>

DATAPOINT_LIST == { datapoint_list[i] : i \in DOMAIN datapoint_list }

\* lookup_by_id: the registry's entries for the triple (none: the lookup gives None).
get_datapoint_by_id(function_group, function_number, datapoint_id) ==
    { d \in DATAPOINT_LIST : /\ d.function_group = function_group
                             /\ d.function_number = function_number
                             /\ d.datapoint_id = datapoint_id }

\* lookup_by_name
get_datapoint_by_name(function_name) ==
    { d \in DATAPOINT_LIST : d.name = function_name }

\* the datapoint id as two bytes, high byte first
get_datapoint_by_bytes(d) == << d.datapoint_id \div 256, d.datapoint_id % 256 >>

\* int.from_bytes(bytes, byteorder='big', signed=False)
RECURSIVE from_bytes(_)
from_bytes(bytes) ==
    IF bytes = << >> THEN 0
    ELSE 256 * from_bytes(SubSeq(bytes, 1, Len(bytes) - 1)) + bytes[Len(bytes)]

\* the declared type's convert_from_bytes
convert_from_bytes(bytes) == from_bytes(bytes)

(***************************************************************************)
(* How a call ends: no result, a result, or an error raised to the caller. *)
(***************************************************************************)
NoResult == [kind |-> "none", exc |-> "", datapoint |-> "", operation |-> 0, value |-> 0]

Raised(exc) == [kind |-> "error", exc |-> exc, datapoint |-> "", operation |-> 0, value |-> 0]

Result(name, operation, value) ==
    [kind |-> "result", exc |-> "", datapoint |-> name, operation |-> operation, value |-> value]

(***************************************************************************)
(* ReceiveMessage.                                                         *)
(***************************************************************************)
ReceiveMessageInit(arbitration_id, operation_id, message_len) ==
    LET super == MessageInit(arbitration_id, operation_id)
    IN  [arbitration_id |-> super.arbitration_id,
         message_id     |-> super.message_id,
         priority       |-> super.priority,
         device_type    |-> super.device_type,
         device_id      |-> super.device_id,
         operation_id   |-> super.operation_id,
         data           |-> super.data,
         nb_remaining   |-> message_len + 1,
         message_len    |-> message_len]

put_data(message, data) ==
    IF ~ _is_valid(message) THEN message
    ELSE [message EXCEPT !.data = message.data \o data,
                         !.nb_remaining = message.nb_remaining - 1]

\* the limits test with the bounds themselves rejected
OutOfLimits_exclusive(limits, converted_value) ==
    /\ limits.declared
    /\ (converted_value <= limits.lower \/ converted_value >= limits.upper)

\* the limits test of ReceiveMessage.parse: TRUE when the value is rejected
OutOfLimits(limits, converted_value) ==
    /\ limits.declared
    /\ (converted_value < limits.lower \/ converted_value > limits.upper)

ReceiveMessageParse(message) ==
    IF Len(message.data) < 6 THEN Raised("NoValidMessageException")
    ELSE LET function_group  == message.data[3]
             function_number == message.data[4]
             datapoint_id    == from_bytes(SubSeq(message.data, 5, 6))
             found           == get_datapoint_by_id(function_group, function_number, datapoint_id)
             converted_value == convert_from_bytes(SubSeq(message.data, 7, Len(message.data)))
         IN  IF found = {} THEN Raised("AttributeError")
             ELSE LET read_datapoint == CHOOSE d \in found : TRUE
                  IN  IF OutOfLimits(read_datapoint.limits, converted_value)
                      THEN Raised("NoValidMessageException")
                      ELSE Result(read_datapoint.name, message.operation_id, converted_value)

(***************************************************************************)
(* The envelope as core.py uses it: Message(arbitration_id, message_len,   *)
(* operation_id), message.put(Response(data)), message.parse_data().       *)
(* These entry points are not in message.py; they are modelled from the    *)
(* specification (section 4.3) as the ReceiveMessage operations above.     *)
(***************************************************************************)
Message(arbitration_id, message_len, operation_id) ==
    ReceiveMessageInit(arbitration_id, operation_id, message_len)

put(message, data) == put_data(message, data)

parse_data(message) == ReceiveMessageParse(message)

Device(device_id, device_type) == [device_id |-> device_id, device_type |-> device_type]

(***************************************************************************)
(* ResponseParser.parse(msg): what it returns (or raises) and the tables   *)
(* it leaves behind.                                                       *)
(***************************************************************************)
Outcome(r, i, devs, pend) == [ret |-> r, inner |-> i, devices |-> devs, pending |-> pend]

\* lines 19-21: the table is keyed by device_id alone
RegisterDevice(devs, message) ==
    IF message.device_id \notin DOMAIN devs
    THEN (message.device_id :> Device(message.device_id, message.device_type)) @@ devs
    ELSE devs

\* lines 24-30: a complete single-frame message
ParseSingle(message, msg, devs, pend) ==
    LET full   == put(message, msg.data)
        parsed == parse_data(full)
    IN  IF message.operation_id = RESPONSE
        THEN Outcome(parsed, parsed, devs, pend)
        \* the debug lines add a str to parse_data()'s tuple, then to an int
        ELSE Outcome(IF parsed.kind = "error" THEN parsed ELSE Raised("TypeError"),
                     parsed, devs, pend)

\* lines 32-34: the entry is stored under the operation code, as a one-element
\* set holding the envelope, whose buffer is still empty
StorePending(message, msg, devs, pend) ==
    Outcome(NoResult, NoResult, devs, (message.operation_id :> {message}) @@ pend)

\* lines 36-46: the stored entry is a set, which has no put(): line 39 raises
Continue(msg, devs, pend) ==
    LET msg_header == msg.data[1]
    IN  IF msg_header \in DOMAIN pend
        THEN Outcome(Raised("AttributeError"), NoResult, devs, pend)
        ELSE Outcome(NoResult, NoResult, devs, pend)

\* parse with the length test placed after the device registration
parse_register_first(msg, devs, pend) ==
    LET early == RegisterDevice(devs, MessageInit(msg.arbitration_id, 0))
    IN  IF Len(msg.data) < 2 THEN Outcome(NoResult, NoResult, early, pend)
        ELSE LET message == Message(msg.arbitration_id, ShiftRight(msg.data[1], 3), msg.data[2])
             IN  IF message.operation_id \in OPERATIONS
                 THEN LET devs2 == RegisterDevice(devs, message)
                      IN  IF message.message_id = 31
                          THEN IF message.message_len = 0
                               THEN ParseSingle(message, msg, devs2, pend)
                               ELSE StorePending(message, msg, devs2, pend)
                          ELSE Continue(msg, devs2, pend)
                 ELSE Outcome(NoResult, NoResult, devs, pend)

\* parse registering the device before the operation code is tested
parse_register_unchecked(msg, devs, pend) ==
    IF Len(msg.data) < 2 THEN Outcome(NoResult, NoResult, devs, pend)
    ELSE LET message == Message(msg.arbitration_id, ShiftRight(msg.data[1], 3), msg.data[2])
             devs2   == RegisterDevice(devs, message)
         IN  IF message.operation_id \in OPERATIONS
             THEN IF message.message_id = 31
                  THEN IF message.message_len = 0
                       THEN ParseSingle(message, msg, devs2, pend)
                       ELSE StorePending(message, msg, devs2, pend)
                  ELSE Continue(msg, devs2, pend)
             ELSE Outcome(NoResult, NoResult, devs2, pend)

\* parse treating every first frame as the start of a multi-frame message
parse_always_pending(msg, devs, pend) ==
    IF Len(msg.data) < 2 THEN Outcome(NoResult, NoResult, devs, pend)
    ELSE LET message == Message(msg.arbitration_id, ShiftRight(msg.data[1], 3), msg.data[2])
         IN  IF message.operation_id \in OPERATIONS
             THEN LET devs2 == RegisterDevice(devs, message)
                  IN  IF message.message_id = 31
                      THEN StorePending(message, msg, devs2, pend)
                      ELSE Continue(msg, devs2, pend)
             ELSE Outcome(NoResult, NoResult, devs, pend)

parse(msg, devs, pend) ==
    IF Len(msg.data) < 2 THEN Outcome(NoResult, NoResult, devs, pend)
    ELSE LET message == Message(msg.arbitration_id, ShiftRight(msg.data[1], 3), msg.data[2])
         IN  IF message.operation_id \in OPERATIONS
             THEN LET devs2 == RegisterDevice(devs, message)
                  IN  IF message.message_id = 31
                      THEN IF message.message_len = 0
                           THEN ParseSingle(message, msg, devs2, pend)
                           ELSE StorePending(message, msg, devs2, pend)
                      ELSE Continue(msg, devs2, pend)
             ELSE Outcome(NoResult, NoResult, devs, pend)

(***************************************************************************)
(* SendMessage.                                                            *)
(***************************************************************************)
_message_size == 8

\* the header with the two datapoint id bytes the other way round
_put_header_low_byte_first(message_len, operation_id, datapoint_of_message) ==
    LET id == get_datapoint_by_bytes(datapoint_of_message)
    IN  << message_len, operation_id,
           datapoint_of_message.function_group,
           datapoint_of_message.function_number, id[2], id[1] >>

_put_header(message_len, operation_id, datapoint_of_message) ==
    << message_len, operation_id,
       datapoint_of_message.function_group,
       datapoint_of_message.function_number >>
    \o get_datapoint_by_bytes(datapoint_of_message)

SendMessageInit(arbitration_id, operation_id, datapoint_of_message) ==
    LET super == MessageInit(arbitration_id, operation_id)
    IN  [arbitration_id |-> super.arbitration_id,
         message_id     |-> super.message_id,
         priority       |-> super.priority,
         device_type    |-> super.device_type,
         device_id      |-> super.device_id,
         operation_id   |-> super.operation_id,
         data           |-> super.data,
         message_len    |-> 1,
         header_data    |-> _put_header(1, operation_id, datapoint_of_message)]

SendPutData(message, data) ==
    IF ~ _is_valid(message) THEN message
    ELSE [message EXCEPT !.data = message.data \o data]

\* the size guard counting the payload alone
TooLong_payload_only(message) == Len(message.data) > _message_size

\* the size guard of to_can_message: TRUE when the message is refused
TooLong(message) == Len(message.data) + Len(message.header_data) > _message_size

NoFrame == [arbitration_id |-> 0, data |-> << >>, is_extended_id |-> FALSE]

\* to_can_message: the frame, or the error raised instead
to_can_message(message) ==
    IF TooLong(message)
    THEN [raised |-> TRUE, can |-> NoFrame]
    ELSE [raised |-> FALSE,
          can |-> [arbitration_id |-> message.arbitration_id,
                   data |-> message.header_data \o message.data,
                   is_extended_id |-> TRUE]]

(***************************************************************************)
(* OneTimeRequest.                                                         *)
(***************************************************************************)
_prio == 8160

\* __init__ with the device's type and id in each other's place
OneTimeRequestInit_swapped(device, operation, function_name) ==
    [_device         |-> device,
     _arbitration_id |-> BitOr(BitOr(ShiftLeft(_prio, 16), ShiftLeft(device.device_id, 8)),
                               device.device_type),
     _function_name  |-> function_name,
     _operation_id   |-> operation]

\* __init__: the arbitration id of every frame the request sends
OneTimeRequestInit(device, operation, function_name) ==
    [_device         |-> device,
     _arbitration_id |-> BitOr(BitOr(ShiftLeft(_prio, 16), ShiftLeft(device.device_type, 8)),
                               device.device_id),
     _function_name  |-> function_name,
     _operation_id   |-> operation]

\* message.send(bus), not among the source files: the frame to_can_message
\* gives is handed to bus.send; an error to_can_message raises goes to the caller
Send(message, onbus) ==
    LET built == to_can_message(message)
    IN  IF built.raised
        THEN [outcome |-> "error", bus |-> onbus]
        ELSE [outcome |-> "sent", bus |-> Append(onbus, built.can)]

NoMessage == [header_data |-> << >>, data |-> << >>]

\* start(data) without the test for a missing datapoint: the frame is built
\* from whatever the lookup gave
OneTimeRequestStart_unguarded(self, data, onbus) ==
    LET found == get_datapoint_by_name(self._function_name)
    IN  IF found = {}
        THEN [outcome |-> "error", bus |-> onbus, message |-> NoMessage]
        ELSE LET datapoint == CHOOSE d \in found : TRUE
                 message   == SendPutData(SendMessageInit(self._arbitration_id,
                                                          self._operation_id,
                                                          datapoint), data)
                 sent      == Send(message, onbus)
             IN  [outcome |-> sent.outcome, bus |-> sent.bus,
                  message |-> [header_data |-> message.header_data, data |-> message.data]]

\* start(data): what the caller sees, the bus afterwards and the message built
OneTimeRequestStart(self, data, onbus) ==
    LET found == get_datapoint_by_name(self._function_name)
    IN  IF found = {}
        THEN [outcome |-> "noop", bus |-> onbus, message |-> NoMessage]
        ELSE LET datapoint == CHOOSE d \in found : TRUE
                 message   == SendPutData(SendMessageInit(self._arbitration_id,
                                                          self._operation_id,
                                                          datapoint), data)
                 sent      == Send(message, onbus)
             IN  [outcome |-> sent.outcome, bus |-> sent.bus,
                  message |-> [header_data |-> message.header_data, data |-> message.data]]

(***************************************************************************)
(* PeriodicRequest.                                                        *)
(***************************************************************************)
\* __init__: the arbitration id of every frame the request schedules
PeriodicRequestInit(device) ==
    [_device         |-> device,
     _arbitration_id |-> BitOr(BitOr(ShiftLeft(_prio, 16), ShiftLeft(device.device_type, 8)),
                               device.device_id)]

\* message.send_periodic(bus), not among the source files: the frame
\* to_can_message gives is handed to bus.send_periodic
SendPeriodic(message, tasks) ==
    LET built == to_can_message(message)
    IN  IF built.raised
        THEN [outcome |-> "error", tasks |-> tasks]
        ELSE [outcome |-> "scheduled", tasks |-> Append(tasks, built.can)]

\* the loop of start() from the i-th datapoint on, without the periodic test
RECURSIVE PeriodicRequestStartFrom_unfiltered(_, _, _)
PeriodicRequestStartFrom_unfiltered(self, i, tasks) ==
    IF i > Len(datapoint_list) THEN [outcome |-> "scheduled", tasks |-> tasks]
    ELSE LET datapoint == datapoint_list[i]
             message == SendMessageInit(self._arbitration_id, GET_REQUEST, datapoint)
             sent    == SendPeriodic(message, tasks)
         IN  IF sent.outcome = "error" THEN sent
             ELSE PeriodicRequestStartFrom_unfiltered(self, i + 1, sent.tasks)

\* the loop of start() from the i-th datapoint on
RECURSIVE PeriodicRequestStartFrom(_, _, _)
PeriodicRequestStartFrom(self, i, tasks) ==
    IF i > Len(datapoint_list) THEN [outcome |-> "scheduled", tasks |-> tasks]
    ELSE LET datapoint == datapoint_list[i]
         IN  IF ~ datapoint.periodic
             THEN PeriodicRequestStartFrom(self, i + 1, tasks)
             ELSE LET message == SendMessageInit(self._arbitration_id, GET_REQUEST, datapoint)
                      sent    == SendPeriodic(message, tasks)
                  IN  IF sent.outcome = "error" THEN sent
                      ELSE PeriodicRequestStartFrom(self, i + 1, sent.tasks)

\* start(): the periodic tasks of the bus afterwards
PeriodicRequestStart(self, tasks) == PeriodicRequestStartFrom(self, 1, tasks)

(***************************************************************************)
(* The inputs the model feeds in.                                          *)
(***************************************************************************)
MaxBus == 2

MaxPeriodic == 3

MessageKinds == {31, 16}

\* (device_id, device_type): two devices share the id 2
Identities == { <<2, 1>>, <<2, 2>>, <<3, 1>> }

ArbitrationIds ==
    { build_arbitration_id(k, 0, i[2], i[1]) : k \in MessageKinds, i \in Identities }

\* payloads: [header, operation, function_group, function_number, id_hi, id_lo, value]
\* header 0: declared_length 0; 8: declared_length 1; 66: declared_length 8
\* (and the number of the RESPONSE code); 153 is no operation code
FrameData ==
    { << >>, <<8>>,
      <<0, RESPONSE>>,
      <<0, RESPONSE, 3, 4, 0, 5, 9>>,
      <<0, RESPONSE, 3, 4, 0, 5, 10>>,
      <<0, RESPONSE, 3, 4, 0, 5, 50>>,
      <<0, RESPONSE, 3, 4, 0, 5, 51>>,
      <<0, RESPONSE, 3, 4, 0, 6, 200>>,
      <<0, RESPONSE, 3, 4, 0, 7, 1>>,
      <<0, GET_REQUEST, 3, 4, 0, 5, 10>>,
      <<0, 153, 3, 4, 0, 5, 10>>,
      <<8, RESPONSE, 3, 4, 0, 6, 200>>,
      <<66, RESPONSE, 3, 4, 0, 6, 200>>,
      <<8, RESPONSE>>,
      <<66, 153>> }

OutDevices == { Device(2, 1), Device(3, 2) }

OutOperations == {SET_REQUEST, GET_REQUEST, 153}

FunctionNames == {"room_temp", "no_such_datapoint"}

Payloads == { << >>, <<42>>, <<1, 2>>, <<1, 2, 3>> }

FieldValues == {0, 1, 15, 31, 127}

(***************************************************************************)
(* History kept for the properties (not program state).                    *)
(***************************************************************************)
NoRun == [hdr |-> -1, need |-> 0, got |-> 0]

Accepted(msg) == Len(msg.data) >= 2 /\ msg.data[2] \in OperationList

Kind(msg) == MessageInit(msg.arbitration_id, 0).message_id

Identity(msg) ==
    LET m == MessageInit(msg.arbitration_id, 0) IN << m.device_id, m.device_type >>

DeclaredLength(msg) == ShiftRight(msg.data[1], 3)

\* the payload names a registered datapoint
KnownDatapoint(data) ==
    /\ Len(data) >= 6
    /\ get_datapoint_by_id(data[3], data[4], from_bytes(SubSeq(data, 5, 6))) # {}

DatapointOf(data) ==
    CHOOSE d \in get_datapoint_by_id(data[3], data[4], from_bytes(SubSeq(data, 5, 6))) : TRUE

\* a first frame of a RESPONSE of N >= 2 frames whose datapoint is registered
\* and declares no limits, so that whatever follows decodes to a valid value
StartsRun(msg) ==
    /\ Accepted(msg)
    /\ Kind(msg) = 31
    /\ msg.data[2] = RESPONSE
    /\ DeclaredLength(msg) > 0
    /\ KnownDatapoint(msg.data)
    /\ ~ DatapointOf(msg.data).limits.declared

\* a first frame that opens a reassembly: its first payload byte is the session key
StartsSession(msg) == Accepted(msg) /\ Kind(msg) = 31 /\ DeclaredLength(msg) > 0

\* the next continuation frame of the sequence being fed
ContinuesRun(msg, r) ==
    /\ r.hdr # -1
    /\ r.got < r.need
    /\ Accepted(msg)
    /\ Kind(msg) # 31
    /\ msg.data[1] = r.hdr

NextRun(msg, r) ==
    IF StartsRun(msg) THEN [hdr |-> msg.data[1], need |-> DeclaredLength(msg), got |-> 0]
    ELSE IF ContinuesRun(msg, r) THEN [r EXCEPT !.got = r.got + 1]
    ELSE NoRun

(***************************************************************************)
(* The state machine.                                                      *)
(***************************************************************************)
(***************************************************************************)
(* The main program: settings, start-up and shutdown.  Setting values are  *)
(* strings; Python's True, False and None are the strings below.           *)
(***************************************************************************)
True == "True"

False == "False"

None == "None"

\* str.lower() on the strings of the model
Lower(s) == IF s = "FALSE" THEN "false" ELSE IF s = "TRUE" THEN "true" ELSE s

\* the value of a setting, or VariableNotFoundError
get_env_settings_safe(environ, env_name, settings_name, settings, default) ==
    IF env_name \in DOMAIN environ
    THEN IF Lower(environ[env_name]) \in {"true", "1"} THEN [raised |-> FALSE, value |-> True]
         ELSE IF Lower(environ[env_name]) \in {"false", "0"}
              THEN [raised |-> FALSE, value |-> False]
              ELSE [raised |-> FALSE, value |-> environ[env_name]]
    ELSE IF settings_name \in DOMAIN settings
         THEN [raised |-> FALSE, value |-> settings[settings_name]]
         ELSE IF default # None
              THEN [raised |-> FALSE, value |-> default]
              ELSE [raised |-> TRUE, value |-> None]

\* the settings parse_mqtt_settings reads, in the order it reads them
MqttVariables ==
    << [key |-> "enable",   env |-> "MQTT_ENABLE",   default |-> True],
       [key |-> "name",     env |-> "MQTT_NAME",     default |-> None],
       [key |-> "topic",    env |-> "MQTT_TOPIC",    default |-> "hoval-gw"],
       [key |-> "broker",   env |-> "MQTT_BROKER",   default |-> None],
       [key |-> "username", env |-> "MQTT_USERNAME", default |-> None],
       [key |-> "password", env |-> "MQTT_PASSWORD", default |-> None],
       [key |-> "port",     env |-> "MQTT_PORT",     default |-> "1883"] >>

CanVariables ==
    << [key |-> "interface", env |-> "CAN_INTERFACE", default |-> "can0"] >>

\* the assignments of a try block from the i-th on: they stop at the first
\* VariableNotFoundError, which the except clause logs
RECURSIVE ParseVariablesFrom(_, _, _, _, _)
ParseVariablesFrom(variables, i, environ, element, parsed) ==
    IF i > Len(variables) THEN [settings |-> parsed, missing |-> FALSE]
    ELSE LET v   == variables[i]
             got == get_env_settings_safe(environ, v.env, v.key, element, v.default)
         IN  IF got.raised
             THEN [settings |-> parsed, missing |-> TRUE]
             ELSE ParseVariablesFrom(variables, i + 1, environ, element,
                                     (v.key :> got.value) @@ parsed)

parse_mqtt_settings(environ, element, _mqtt_settings) ==
    ParseVariablesFrom(MqttVariables, 1, environ, element, _mqtt_settings)

parse_can_settings(environ, element, _can_settings) ==
    ParseVariablesFrom(CanVariables, 1, environ, element, _can_settings)

\* parse_settings: the two module dictionaries afterwards, and whether a
\* VariableNotFoundError was logged on the way
parse_settings(environ, settings) ==
    LET mqtt == IF "mqtt" \in DOMAIN settings
                THEN parse_mqtt_settings(environ, settings["mqtt"], << >>)
                ELSE [settings |-> << >>, missing |-> FALSE]
        can  == IF "can" \in DOMAIN settings
                THEN parse_can_settings(environ, settings["can"], << >>)
                ELSE [settings |-> << >>, missing |-> FALSE]
    IN  [_mqtt_settings |-> mqtt.settings,
         _can_settings  |-> can.settings,
         missing        |-> mqtt.missing \/ can.missing]

\* Python's truth value of a setting
Truthy(value) == value \notin {False, None, ""}

MainInit ==
    [pc |-> "start", file |-> None, environ |-> << >>, settings |-> << >>,
     _mqtt_settings |-> << >>, _can_settings |-> << >>, missing |-> FALSE,
     can0 |-> "none", mqtt_client |-> None, connect_attempted |-> FALSE,
     scheduled |-> {}, interrupted |-> FALSE, exc |-> ""]

NoRequest ==
    [device |-> Device(0, 0), operation |-> 0, function_name |-> "", data |-> << >>,
     message |-> NoMessage]

inboundVars == <<devices, pending, frame, ret, inner, seen, run, sessions>>

writeVars == <<bus, request, outcome>>

Init ==
    /\ devices = << >>
    /\ pending = << >>
    /\ frame = [arbitration_id |-> 0, data |-> << >>]
    /\ ret = NoResult
    /\ inner = NoResult
    /\ seen = {}
    /\ run = NoRun
    /\ sessions = {}
    /\ bus = << >>
    /\ request = NoRequest
    /\ outcome = "init"
    /\ arb = [message_id |-> 0, priority |-> 0, device_type |-> 0, device_id |-> 0,
              arbitration_id |-> 0]
    /\ periodic = [device |-> Device(0, 0), tasks |-> << >>]
    /\ task = "init"
    /\ main = MainInit

\* one frame goes through ResponseParser.parse
Receive(msg) ==
    LET o == parse(msg, devices, pending)
    IN  /\ frame' = msg
        /\ ret' = o.ret
        /\ inner' = o.inner
        /\ devices' = o.devices
        /\ pending' = o.pending
        /\ seen' = IF Accepted(msg) THEN seen \cup {Identity(msg)} ELSE seen
        /\ run' = NextRun(msg, run)
        /\ sessions' = IF StartsSession(msg) THEN sessions \cup {msg.data[1]} ELSE sessions

\* the inbound loop hands one frame, from the given ids and payloads, to
\* ResponseParser.parse
ParseFrameOf(aids, datas) ==
    \E aid \in aids, data \in datas :
        /\ Receive([arbitration_id |-> aid, data |-> data])
        /\ task' = "inbound"
        /\ UNCHANGED <<writeVars, arb, periodic, main>>

ParseFrame == ParseFrameOf(ArbitrationIds, FrameData)

\* a OneTimeRequest that also enters its device in the Device table
OneTimeRequestOf_registering(devs, operations, names, payloads) ==
    /\ Len(bus) < MaxBus
    /\ \E device \in devs, operation \in operations,
          function_name \in names, data \in payloads :
        LET self == OneTimeRequestInit(device, operation, function_name)
            o    == OneTimeRequestStart(self, data, bus)
        IN  /\ request' = [device |-> device, operation |-> operation,
                           function_name |-> function_name, data |-> data,
                           message |-> o.message]
            /\ outcome' = o.outcome
            /\ bus' = o.bus
            /\ task' = "write"
            /\ devices' = (device.device_id :> device) @@ devices
            /\ UNCHANGED <<pending, frame, ret, inner, seen, run, sessions, arb, periodic, main>>

\* the write-consumption loop builds a OneTimeRequest and starts it
OneTimeRequestOf(devs, operations, names, payloads) ==
    /\ Len(bus) < MaxBus
    /\ \E device \in devs, operation \in operations,
          function_name \in names, data \in payloads :
        LET self == OneTimeRequestInit(device, operation, function_name)
            o    == OneTimeRequestStart(self, data, bus)
        IN  /\ request' = [device |-> device, operation |-> operation,
                           function_name |-> function_name, data |-> data,
                           message |-> o.message]
            /\ outcome' = o.outcome
            /\ bus' = o.bus
            /\ task' = "write"
            /\ UNCHANGED <<inboundVars, arb, periodic, main>>

OneTimeRequest == OneTimeRequestOf(OutDevices, OutOperations, FunctionNames, Payloads)

\* the periodic loop builds a PeriodicRequest for a device and starts it
PeriodicRequestOf(devs) ==
    /\ Len(periodic.tasks) < MaxPeriodic
    /\ \E device \in devs :
        LET self == PeriodicRequestInit(device)
            o    == PeriodicRequestStart(self, periodic.tasks)
        IN  /\ periodic' = [device |-> device, tasks |-> o.tasks]
            /\ task' = "periodic"
            /\ UNCHANGED <<inboundVars, writeVars, arb, main>>

\* a caller packs four fields into an arbitration id
BuildArbitrationId ==
    \E k \in FieldValues, p \in FieldValues, t \in FieldValues, d \in FieldValues :
        /\ arb' = [message_id |-> k, priority |-> p, device_type |-> t, device_id |-> d,
                   arbitration_id |-> build_arbitration_id(k, p, t, d)]
        /\ task' = "codec"
        /\ UNCHANGED <<inboundVars, writeVars, periodic, main>>

Next == ParseFrame

Spec == Init /\ [][Next]_vars

NextOut == OneTimeRequest

SpecOut == Init /\ [][NextOut]_vars

NextArb == BuildArbitrationId

SpecArb == Init /\ [][NextArb]_vars

(***************************************************************************)
(* The three tasks on one event loop, any interleaving, with the frames    *)
(* the gateway sent coming back on the bus.                                *)
(***************************************************************************)
SomeArbitrationIds ==
    { build_arbitration_id(k, 0, i[2], i[1]) : k \in MessageKinds, i \in {<<2, 1>>, <<2, 2>>} }

SomeFrameData == { <<8>>, <<0, RESPONSE, 3, 4, 0, 5, 10>>, <<8, RESPONSE>> }

InboundLoop == ParseFrameOf(SomeArbitrationIds, SomeFrameData)

WriteLoop ==
    OneTimeRequestOf({Device(2, 1), Device(255, 255)}, {SET_REQUEST},
                     {"room_temp", "no_such_datapoint"}, { <<42>> })

\* the periodic loop polls the devices of the Device table
PeriodicLoop == PeriodicRequestOf({ devices[i] : i \in DOMAIN devices })

\* a frame the gateway sent or scheduled is received back
LoopBack ==
    \E sent \in { bus[i] : i \in DOMAIN bus }
                \cup { periodic.tasks[i] : i \in DOMAIN periodic.tasks } :
        /\ Receive([arbitration_id |-> sent.arbitration_id, data |-> sent.data])
        /\ task' = "loopback"
        /\ UNCHANGED <<writeVars, arb, periodic, main>>

NextAll == InboundLoop \/ WriteLoop \/ PeriodicLoop \/ LoopBack

SpecAll == Init /\ [][NextAll]_vars

(***************************************************************************)
(* main(), one step per statement group; an exception no handler catches   *)
(* ends it in "crashed".                                                   *)
(***************************************************************************)
Environs == { << >>, ("MQTT_ENABLE" :> "FALSE"), ("MQTT_BROKER" :> "10.0.0.1") }

MqttElements ==
    { IF enable = None THEN [k \in keys |-> "x"]
                       ELSE ("enable" :> enable) @@ [k \in keys |-> "x"] :
        enable \in {None, True, False},
        keys \in SUBSET {"name", "broker", "username", "password"} }

CanElements == { << >>, ("interface" :> "can1") }

SettingsFiles ==
    { << >> }
    \cup { ("mqtt" :> m) : m \in MqttElements }
    \cup { ("can" :> c) : c \in CanElements }
    \cup { ("mqtt" :> m) @@ ("can" :> c) : m \in MqttElements, c \in CanElements }

otherVars == <<inboundVars, writeVars, arb, periodic>>

\* lines 80-81: the command line is read and parse_settings runs
MainParseSettings ==
    /\ main.pc = "start"
    /\ \E file \in {None, "candump.log"}, environ \in Environs, settings \in SettingsFiles :
        LET parsed == parse_settings(environ, settings)
        IN  main' = [main EXCEPT !.pc = "handler", !.file = file, !.environ = environ,
                                 !.settings = settings,
                                 !._mqtt_settings = parsed._mqtt_settings,
                                 !._can_settings = parsed._can_settings,
                                 !.missing = parsed.missing]
    /\ task' = "main"
    /\ UNCHANGED otherVars

\* lines 84-87: the bus handle is opened
MainChooseHandler ==
    /\ main.pc = "handler"
    /\ main' = IF main.file = None /\ "interface" \notin DOMAIN main._can_settings
               THEN [main EXCEPT !.pc = "crashed", !.exc = "KeyError"]
               ELSE [main EXCEPT !.pc = "mqtt", !.can0 = "open"]
    /\ task' = "main"
    /\ UNCHANGED otherVars

\* lines 104-106: the MQTT client is connected when MQTT is enabled
MainSetupMqtt ==
    /\ main.pc = "mqtt"
    /\ main' = IF "enable" \notin DOMAIN main._mqtt_settings
               THEN [main EXCEPT !.pc = "crashed", !.exc = "KeyError"]
               ELSE IF Truthy(main._mqtt_settings["enable"])
                    THEN [main EXCEPT !.pc = "try", !.mqtt_client = "client",
                                      !.connect_attempted = TRUE]
                    ELSE [main EXCEPT !.pc = "try"]
    /\ task' = "main"
    /\ UNCHANGED otherVars

\* lines 110-115: the loops are scheduled and the event loop runs
MainSchedule ==
    /\ main.pc = "try"
    /\ main' = IF "topic" \notin DOMAIN main._mqtt_settings
               THEN [main EXCEPT !.pc = "finally", !.exc = "KeyError"]
               ELSE [main EXCEPT !.pc = "running",
                                 !.scheduled = IF main.file = None
                                               THEN {"read", "send_periodic", "send"}
                                               ELSE {"read", "send"}]
    /\ task' = "main"
    /\ UNCHANGED otherVars

\* lines 116-118: an interrupt signal ends run_forever
MainInterrupt ==
    /\ main.pc = "running"
    /\ main' = [main EXCEPT !.pc = "finally", !.interrupted = TRUE]
    /\ task' = "main"
    /\ UNCHANGED otherVars

\* lines 119-121: the finally clause
MainFinally ==
    /\ main.pc = "finally"
    /\ main' = IF main.mqtt_client = None
               THEN [main EXCEPT !.pc = "crashed", !.exc = "AttributeError"]
               ELSE [main EXCEPT !.pc = "done", !.mqtt_client = "stopped",
                                 !.can0 = "closed"]
    /\ task' = "main"
    /\ UNCHANGED otherVars

NextMain ==
    \/ MainParseSettings
    \/ MainChooseHandler
    \/ MainSetupMqtt
    \/ MainSchedule
    \/ MainInterrupt
    \/ MainFinally

SpecMain == Init /\ [][NextMain]_vars

(***************************************************************************)
(* Properties.                                                             *)
(***************************************************************************)
ValueBytes(data) == SubSeq(data, 7, Len(data))

\* a complete single-frame message: first frame, declared_length 0
SingleFrame(msg) == Accepted(msg) /\ Kind(msg) = 31 /\ DeclaredLength(msg) = 0

\* the decoded value passes the datapoint's limits (or there are none)
WithinLimits(data) ==
    LET limits == DatapointOf(data).limits
        v      == convert_from_bytes(ValueBytes(data))
    IN  ~ limits.declared \/ (limits.lower <= v /\ v <= limits.upper)

WellFormedSingle(msg) ==
    /\ SingleFrame(msg)
    /\ msg.data[2] = RESPONSE
    /\ KnownDatapoint(msg.data)
    /\ WithinLimits(msg.data)

\* C1: a first frame announcing N-1 continuation frames, followed in order by
\* N-1 continuation frames carrying its first payload byte, gives no result on
\* each of the first N-1 frames and one result on the N-th.
C1_MultiFrameReassembly ==
    run.hdr # -1 =>
        IF run.got = run.need THEN ret.kind = "result" ELSE ret.kind = "none"

\* C2: a well-formed single-frame RESPONSE is parsed at once: parse returns its
\* result (datapoint, RESPONSE, decoded value) and the Pending table is left as
\* it was, whatever it held.
C2_SingleFrameParsedAtOnce ==
    [][ WellFormedSingle(frame') =>
            /\ ret' = Result(DatapointOf(frame'.data).name, RESPONSE,
                             convert_from_bytes(ValueBytes(frame'.data)))
            /\ pending' = pending ]_vars

C2_Witness ==
    /\ WellFormedSingle(frame)
    /\ ret.kind = "result"
    /\ pending # << >>

\* C3: a continuation frame whose first payload byte is the session key of no
\* reassembly in progress is dropped: no result, no error, Pending table unchanged.
C3_ForeignContinuationDropped ==
    [][ (Accepted(frame') /\ Kind(frame') # 31 /\ frame'.data[1] \notin sessions) =>
            /\ ret'.kind = "none"
            /\ pending' = pending ]_vars

\* C4: for a datapoint with declared limits, a value below lower or above upper
\* never comes back as a result, and a value v with lower <= v <= upper
\* (v = lower and v = upper included) always does.
C4_LimitsEnforced ==
    (SingleFrame(frame) /\ KnownDatapoint(frame.data)
                        /\ DatapointOf(frame.data).limits.declared) =>
        LET limits == DatapointOf(frame.data).limits
            v      == convert_from_bytes(ValueBytes(frame.data))
        IN  IF v < limits.lower \/ v > limits.upper
            THEN inner.kind # "result" /\ ret.kind # "result"
            ELSE /\ inner = Result(DatapointOf(frame.data).name, frame.data[2], v)
                 /\ (frame.data[2] = RESPONSE => ret = inner)

C4_Witness ==
    /\ SingleFrame(frame)
    /\ KnownDatapoint(frame.data)
    /\ DatapointOf(frame.data).limits.declared
    /\ convert_from_bytes(ValueBytes(frame.data)) = DatapointOf(frame.data).limits.upper
    /\ ret.kind = "result"
    /\ ret.value = DatapointOf(frame.data).limits.upper

\* the frame is one the reassembler rejects: too short, unknown operation code,
\* a continuation of no session, a complete buffer under 6 bytes, a value out
\* of limits
Rejected(msg, keys) ==
    \/ Len(msg.data) < 2
    \/ ~ Accepted(msg)
    \/ (Kind(msg) # 31 /\ msg.data[1] \notin keys)
    \/ (SingleFrame(msg) /\ Len(msg.data) < 6)
    \/ (SingleFrame(msg) /\ KnownDatapoint(msg.data) /\ ~ WithinLimits(msg.data))

\* C5: every rejection ends with parse returning no result, never with an error
\* raised to the caller, and leaves the Pending table as it was.
C5_RejectionReturnsNoResult ==
    [][ Rejected(frame', sessions) => (ret'.kind = "none" /\ pending' = pending) ]_vars

\* C6: an outbound message whose header plus payload exceeds 8 bytes makes
\* to_can_message raise, and no frame reaches the bus for that request.
C6_OutboundSizeGuard ==
    [][ Len(request'.message.header_data) + Len(request'.message.data) > 8 =>
            (outcome' = "error" /\ bus' = bus) ]_vars

C6_Witness ==
    /\ Len(request.message.header_data) + Len(request.message.data) > 8
    /\ outcome = "error"
    /\ Len(bus) >= 1

\* C7: OneTimeRequest.start for a function name the registry does not hold
\* sends nothing and raises nothing, for any data and any operation.
C7_UnknownNameIsNoOp ==
    [][ get_datapoint_by_name(request'.function_name) = {} =>
            (outcome' = "noop" /\ bus' = bus) ]_vars

C7_Witness ==
    /\ get_datapoint_by_name(request.function_name) = {}
    /\ request.data # << >>
    /\ request.operation = SET_REQUEST
    /\ outcome = "noop"
    /\ Len(bus) >= 1

\* C8: a frame with fewer than 2 payload bytes is rejected before any device
\* registration: no result, Device table and Pending table unchanged.
C8_ShortFrameRejectedFirst ==
    [][ Len(frame'.data) < 2 =>
            (ret'.kind = "none" /\ devices' = devices /\ pending' = pending) ]_vars

C8_Witness ==
    /\ Len(frame.data) = 1
    /\ Identity(frame)[1] \notin DOMAIN devices
    /\ devices # << >>
    /\ ret.kind = "none"

\* C9: decoding the identifier build_arbitration_id gives, through
\* Message.__init__ and through the get_message_* helpers, reproduces the four
\* fields it was built from.
C9_ArbitrationIdRoundTrip ==
    LET m == MessageInit(arb.arbitration_id, 0)
    IN  /\ <<m.message_id, m.priority, m.device_type, m.device_id>>
             = <<arb.message_id, arb.priority, arb.device_type, arb.device_id>>
        /\ << get_message_id(arb.arbitration_id),
              get_message_priority(arb.arbitration_id),
              get_message_device_type(arb.arbitration_id),
              get_message_device_id(arb.arbitration_id) >>
             = <<arb.message_id, arb.priority, arb.device_type, arb.device_id>>

\* C10: every identity (device_id, device_type) met in an accepted frame is in
\* the Device table with that id and that type.
C10_EveryIdentityRegistered ==
    \A i \in seen :
        /\ i[1] \in DOMAIN devices
        /\ devices[i[1]] = Device(i[1], i[2])

\* C11: whenever parse returns a result the message's operation is RESPONSE,
\* and a complete GET_REQUEST or SET_REQUEST message yields no result and
\* raises no error.
C11_OnlyResponseSurfaced ==
    /\ ret.kind = "result" => (frame.data[2] = RESPONSE /\ ret.operation = RESPONSE)
    /\ (/\ SingleFrame(frame)
        /\ frame.data[2] \in {GET_REQUEST, SET_REQUEST}
        /\ KnownDatapoint(frame.data)
        /\ WithinLimits(frame.data)) => ret.kind = "none"

\* C12: a frame whose second payload byte is none of the three operation codes
\* is ignored: no result, no error, no device registered, Pending table
\* unchanged, for a first frame and for a continuation frame alike.
C12_UnknownOperationIgnored ==
    [][ (Len(frame'.data) >= 2 /\ frame'.data[2] \notin {66, 64, 70}) =>
            /\ ret' = NoResult
            /\ devices' = devices
            /\ pending' = pending ]_vars

C12_Witness ==
    /\ Len(frame.data) >= 2
    /\ frame.data[2] \notin {66, 64, 70}
    /\ Kind(frame) # 31
    /\ frame.data[1] \in DOMAIN pending
    /\ Identity(frame)[1] \notin DOMAIN devices
    /\ ret = NoResult

\* the first payload byte of the first frame an entry was made from is not
\* kept in it; its declared length (that byte >> 3) is, and tells the entries
\* of different session keys apart
OfOtherSession(entry, msg) == \A m \in entry : m.message_len # DeclaredLength(msg)

\* C13: the Pending table is keyed by the first payload byte of the first
\* frame, and a first frame never replaces the entry of a session whose first
\* payload byte differs from its own.
C13_PendingKeyedBySessionByte ==
    [][ StartsSession(frame') =>
            /\ frame'.data[1] \in DOMAIN pending'
            /\ \A k \in DOMAIN pending :
                   OfOtherSession(pending[k], frame') =>
                       (k \in DOMAIN pending' /\ pending'[k] = pending[k]) ]_vars

\* C17: a first frame with declared_length L > 0 creates a Pending entry whose
\* buffer is seeded with that frame's payload and whose remaining frame count
\* is L (L + 1 at construction, decremented once).
C17_PendingEntryLifecycle ==
    [][ StartsSession(frame') =>
            \E k \in DOMAIN pending' : \E m \in pending'[k] :
                /\ m.data = frame'.data
                /\ m.nb_remaining = DeclaredLength(frame') ]_vars

\* the arbitration id of a gateway request to the device, computed by hand
ExpectedArbitrationId(device) == 8160 * 65536 + device.device_type * 256 + device.device_id

\* the six header bytes of a request for the datapoint, computed by hand
ExpectedHeader(operation, d) ==
    << 1, operation, d.function_group, d.function_number,
       d.datapoint_id \div 256, d.datapoint_id % 256 >>

\* the frames a step appended to a sequence
Appended(before, after) == SubSeq(after, Len(before) + 1, Len(after))

\* C16: PeriodicRequest.start() schedules exactly one GET_REQUEST frame for each
\* periodic datapoint of the registry and none for any other, each with the
\* arbitration id built from priority 8160 and the device's type and id.
C16_PeriodicStartSchedulesPeriodicOnly ==
    [][ task' = "periodic" =>
            LET new == Appended(periodic.tasks, periodic'.tasks)
            IN  /\ SubSeq(periodic'.tasks, 1, Len(periodic.tasks)) = periodic.tasks
                /\ \A d \in DATAPOINT_LIST :
                       Cardinality({ i \in DOMAIN new :
                                       new[i].data = ExpectedHeader(GET_REQUEST, d) })
                           = IF d.periodic THEN 1 ELSE 0
                /\ Len(new) = Cardinality({ d \in DATAPOINT_LIST : d.periodic })
                /\ \A i \in DOMAIN new :
                       /\ new[i].arbitration_id = ExpectedArbitrationId(periodic'.device)
                       /\ new[i].is_extended_id ]_vars

C16_Witness ==
    /\ task = "periodic"
    /\ Len(periodic.tasks) = 4
    /\ periodic.tasks[1].arbitration_id # periodic.tasks[4].arbitration_id

\* C18: for a valid operation and a payload of at most 2 bytes the frame sent
\* is an extended-id frame with the arbitration id given at construction and
\* the data [1, operation, group, number, id_hi, id_lo] followed by the payload.
C18_OutboundFrameLayout ==
    [][ (/\ task' = "write"
         /\ request'.operation \in {66, 64, 70}
         /\ get_datapoint_by_name(request'.function_name) # {}
         /\ Len(request'.data) <= 2) =>
            LET d == CHOOSE x \in DATAPOINT_LIST : x.name = request'.function_name
            IN  /\ outcome' = "sent"
                /\ bus' = Append(bus,
                                 [arbitration_id |-> ExpectedArbitrationId(request'.device),
                                  data |-> ExpectedHeader(request'.operation, d)
                                           \o request'.data,
                                  is_extended_id |-> TRUE]) ]_vars

C18_Witness ==
    /\ task = "write"
    /\ request.operation = SET_REQUEST
    /\ request.data = <<1, 2>>
    /\ outcome = "sent"
    /\ Len(bus) = 2
    /\ bus[2].data = <<1, 70, 3, 4, 0, 5, 1, 2>>

\* C19: in every interleaving of the three tasks the Pending table and the
\* Device table change only in steps of the inbound loop; a step of the
\* periodic loop or of the write-consumption loop leaves both as they were.
C19_SingleWriter ==
    [][ /\ task' \in {"periodic", "write"} => (pending' = pending /\ devices' = devices)
        /\ (pending' # pending \/ devices' # devices) => task' \in {"inbound", "loopback"} ]_vars

C19_Witness ==
    /\ task = "write"
    /\ outcome = "sent"
    /\ Len(periodic.tasks) >= 2
    /\ DOMAIN pending # {}
    /\ DOMAIN devices # {}

\* a frame as ResponseParser.parse receives it
Received(sent) == [arbitration_id |-> sent.arbitration_id, data |-> sent.data]

\* the frame decodes to a single-frame message of kind 0x1f from the device
DecodesAsSingleFrom(msg, device) ==
    /\ Kind(msg) = 31
    /\ DeclaredLength(msg) = 0
    /\ Identity(msg) = << device.device_id, device.device_type >>

\* C20: a frame built by PeriodicRequest or OneTimeRequest decodes, when it
\* comes back to ResponseParser.parse, to kind 0x1f, declared length 0 and the
\* device's type and id; parse creates no Pending entry for it and returns no
\* result.
C20_LoopBackIsSingleFrame ==
    [][ /\ (task' = "write" /\ outcome' = "sent") =>
               DecodesAsSingleFrom(Received(bus'[Len(bus')]), request'.device)
        /\ task' = "periodic" =>
               \A i \in DOMAIN periodic'.tasks :
                   i > Len(periodic.tasks) =>
                       DecodesAsSingleFrom(Received(periodic'.tasks[i]), periodic'.device)
        /\ task' = "loopback" =>
               /\ SingleFrame(frame')
               /\ pending' = pending
               /\ ret'.kind # "result"
               /\ Identity(frame')[1] \in DOMAIN devices' ]_vars

C20_Witness ==
    /\ task = "loopback"
    /\ Identity(frame) = <<255, 255>>
    /\ frame.data[2] = SET_REQUEST
    /\ ret.kind = "error"
    /\ DOMAIN pending # {}

\* C14: once main has ended after an interrupt signal, the bus handle has been
\* closed and the MQTT client, if one was created, has been stopped, whatever
\* the start-up configuration, MQTT disabled included.
C14_ShutdownReleasesHandles ==
    (main.interrupted /\ main.pc \in {"done", "crashed"}) =>
        /\ main.can0 = "closed"
        /\ main.mqtt_client \in {None, "stopped"}

\* C15: after a VariableNotFoundError no bus handle is opened, no MQTT
\* connection is attempted and none of the three loops is scheduled.
C15_MissingSettingAbortsStartup ==
    main.missing =>
        /\ main.can0 = "none"
        /\ ~ main.connect_attempted
        /\ main.scheduled = {}

====
